---- MODULE Spec2Model ----
(***************************************************************************)
(* Model of the getport crate (src/src/lib.rs): port reservations held by  *)
(* an open UDP socket or TCP listener on 127.0.0.1, the bounded retry loop *)
(* reserve_port, its port providers, and the host's bind facility.         *)
(***************************************************************************)
EXTENDS Naturals, Sequences, FiniteSets

\* ------------------------------------------------------------------ bounds

\* Longest candidate array a Provider is built with.
MaxLen == 6

\* Number of reservations that can be alive at once.
MaxRes == 2

\* ------------------------------------------------------- program constants

\* fastrand::u16(49152..=65535)
PrivateLo == 49152

PrivateHi == 65535

\* A retry budget of one attempt more.
MaxAttemptsOneMore == 5 + 1

\* if attempts >= 5 { panic!(...) }
MaxAttempts == 5

\* max_retries_tests::Provider: if self.attempts > 5 { panic!(...) }
ProviderBudget == 5

ExhaustedMsg == "Failed to find usable port after 5 attempts."

BudgetMsg == "Expecting attempts to be less than or equal to 5."

IndexMsg == "index out of bounds"

OsErrorMsg == "os error"

\* ------------------------------------------------------------- the host

Kinds == {"Udp", "Tcp"}

\* The ports of the private range that the model follows: its two ends.
PrivatePorts == {PrivateLo, PrivateHi}

\* The ports of 127.0.0.1 the model follows.
HostPorts == PrivatePorts

\* What a u16 candidate can be: a followed port, or the wildcard 0.
U16Sample == HostPorts \cup {0}

ResIds == 1 .. MaxRes

\* The threads that call into the crate, and the one that does so alone.
Callers == {1, 2}

Main == {1}

None == [tag |-> "None"]

NoAttempt == [port |-> 0, res |-> "", local |-> 0]

NoViews == [id |-> 0, seen |-> {}]

NoCount == [pulls |-> 0, binds |-> 0, inUse |-> 0]

VARIABLES
    sockets,       \* the open sockets bound on 127.0.0.1: [kind, port, owner]
    reservations,  \* the live Port<T> values: [id, kind, number, _sitter]
    views,         \* [id, seen]: what the accessors of the Port in use have
                   \* returned since the last call of a reserve function
    pc,            \* per caller: "idle", "loop", "returned", "panicked"
    entry,         \* per caller: the function the caller called
    kind,          \* per caller: T of reserve_port::<T, _>
    provider,      \* per caller: the ProvidePort value behind `ports`
    attempts,      \* per caller: reserve_port's local `attempts`
    count,         \* per caller: provide_port calls, binds, binds "in use" so far
    last,          \* per caller: the latest bind attempt, [port, res, local]
    result         \* per caller: what the call gave its caller

vars == <<sockets, reservations, views, pc, entry, kind, provider, attempts,
          count, last, result>>

callVars == <<pc, entry, kind, provider, attempts, count, last, result>>

\* The accessor results seen so far of Port r, with one more.
Seen(r, accessor, value) ==
    [id   |-> r.id,
     seen |-> (IF views.id = r.id THEN views.seen ELSE {}) \cup {<<accessor, value>>}]

\* Ports of a kind that some open socket holds.
BoundPorts(k, socks) == {s.port : s \in {t \in socks : t.kind = k}}

\* UdpSocket::bind / TcpListener::bind on 127.0.0.1:port, as the set of
\* outcomes the host can give: the bound local port, "address in use", or
\* any other OS error (permissions, resource limits), which can strike at
\* any bind.  Port 0 asks the host for any free port.
OsBind(k, port, socks) ==
    LET free == HostPorts \ BoundPorts(k, socks)
        ok   == IF port = 0
                THEN {[res |-> "Ok", local |-> q] : q \in free}
                ELSE IF port \in free
                     THEN {[res |-> "Ok", local |-> port]}
                     ELSE {}
    IN  ok \cup (IF ok = {} THEN {[res |-> "AddrInUse", local |-> 0]} ELSE {})
           \cup {[res |-> "Other", local |-> 0]}

\* ------------------------------------------------------------ Port<T>

\* take reading the port from the socket instead of the field.
PortTakeLocalAddr(p) == p._sitter.port

\* Port::take: returns the number; `self` is dropped at the end of the call.
PortTake(p) == p.number

\* Port::peek
PortPeek(p) == p.number

\* <Port<T> as AsRef<u16>>::as_ref
PortAsRef(p) == p.number

\* A Port that leaks its socket (as with mem::forget).
DropPortLeaking(p, socks) == socks

\* The open sockets once a Port is dropped (its _sitter closes).
DropPort(p, socks) == socks \ {p._sitter}

\* peek or as_ref taking the Port by value: it is dropped when they return.
BorrowedByValue(p, socks) == socks \ {p._sitter}

\* The open sockets once peek or as_ref has returned: they take &self, so
\* the Port and its _sitter stay as they are.
Borrowed(p, socks) == socks

\* sit leaving a second socket of its own open, on another free port.
KeepSitterAndStray(p, socks) ==
    socks \cup {p._sitter}
          \cup {[kind |-> p.kind, port |-> q, owner |-> p.id] :
                   q \in {x \in {PrivateLo, PrivateHi} :
                            \A t \in socks \cup {p._sitter} :
                                t.kind # p.kind \/ t.port # x}}

\* sit letting the socket go out of scope instead of moving it into the Port.
KeepSitterDropped(p, socks) == socks

\* The open sockets once sit has built Port p: the socket it bound moved
\* into p._sitter and stays open.
KeepSitter(p, socks) == socks \cup {p._sitter}

\* ------------------------------------------------------------ Sit::sit

\* sit taking every bind error for "address in use".
SitAnyErrorIsNone(k, port, o, id) ==
    IF o.res = "Ok"
    THEN [tag  |-> "Some",
          port |-> [id |-> id, kind |-> k, number |-> port,
                    _sitter |-> [kind |-> k, port |-> o.local, owner |-> id]]]
    ELSE [tag |-> "None"]

\* <UdpSocket as Sit>::sit and <TcpListener as Sit>::sit, given the
\* outcome o of the bind: Some(Port), None, or a panic.
Sit(k, port, o, id) ==
    CASE o.res = "Ok" ->
            [tag  |-> "Some",
             port |-> [id |-> id, kind |-> k, number |-> port,
                       _sitter |-> [kind |-> k, port |-> o.local, owner |-> id]]]
      [] o.res = "AddrInUse" -> [tag |-> "None"]
      [] OTHER -> [tag |-> "Panic"]

\* ------------------------------------------------------- port providers

\* fastrand::u16(0..=0): the wildcard only.
FastrandWildcard == {0}

\* fastrand::u16(..): the whole of u16.
FastrandAnyU16 == U16Sample

\* fastrand::u16(49152..=65535), on the ports the model follows.
FastrandU16 == {p \in U16Sample : PrivateLo <= p /\ p <= PrivateHi}

\* A provider is [type, ports, len, index].  Of the array of
\* retry_tests::Provider the model keeps the length and the cell at
\* `index`; each cell is read once, so the cells behind it are drawn when
\* `index` reaches them.
Fastrand == [type |-> "Fastrand", ports |-> <<>>, len |-> 0, index |-> 0]

\* retry_tests::Provider::new(ports): an array of len ports, first its cell 0
RetryProvider(len, first) ==
    [type |-> "Retry", ports |-> <<first>>, len |-> len, index |-> 0]

\* max_retries_tests::Provider::new(port); index is its `attempts`
MaxRetriesProvider(port) ==
    [type |-> "MaxRetries", ports |-> <<port>>, len |-> 1, index |-> 0]

Pulled(port, prov) == [panic |-> FALSE, port |-> port, msg |-> "", prov |-> prov]

ProviderPanic(msg, prov) == [panic |-> TRUE, port |-> 0, msg |-> msg, prov |-> prov]

\* The ports a provider may hand out: the ProvidePort contract
\* ("Returns number from 49152 to 65535"), on the ports the model follows.
ContractPorts == {p \in U16Sample : PrivateLo <= p /\ p <= PrivateHi}

\* provide_port with the array provider stepping its index by two.
ProvidePortSkipping(prov) ==
    CASE prov.type = "Fastrand" ->
            {Pulled(p, prov) : p \in FastrandU16}
      [] prov.type = "Retry" ->
            IF prov.index < prov.len
            THEN {Pulled(prov.ports[1],
                         [prov EXCEPT !.index = @ + 2, !.ports = <<q>>]) :
                     q \in ContractPorts}
            ELSE {ProviderPanic(IndexMsg, prov)}
      [] OTHER ->
            IF prov.index + 1 > ProviderBudget
            THEN {ProviderPanic(BudgetMsg, [prov EXCEPT !.index = @ + 1])}
            ELSE {Pulled(prov.ports[1], [prov EXCEPT !.index = @ + 1])}

\* ProvidePort::provide_port of the three providers: the set of results one
\* call can have, each with the provider's state after it.
ProvidePort(prov) ==
    CASE prov.type = "Fastrand" ->
            {Pulled(p, prov) : p \in FastrandU16}
      [] prov.type = "Retry" ->
            IF prov.index < prov.len
            THEN IF prov.index + 1 < prov.len
                 THEN {Pulled(prov.ports[1],
                              [prov EXCEPT !.index = @ + 1, !.ports = <<q>>]) :
                          q \in ContractPorts}
                 ELSE {Pulled(prov.ports[1],
                              [prov EXCEPT !.index = @ + 1, !.ports = <<>>])}
            ELSE {ProviderPanic(IndexMsg, prov)}
      [] OTHER ->
            IF prov.index + 1 > ProviderBudget
            THEN {ProviderPanic(BudgetMsg, [prov EXCEPT !.index = @ + 1])}
            ELSE {Pulled(prov.ports[1], [prov EXCEPT !.index = @ + 1])}

\* ------------------------------------------------------------- the calls

FreeIds == ResIds \ {r.id : r \in reservations}

NewId == CHOOSE i \in FreeIds : \A j \in FreeIds : i <= j

\* A caller enters reserve_port::<T, P>(ports): attempts = 0.
Enter(c, e, k, prov) ==
    /\ pc[c] = "idle"
    /\ Cardinality(reservations) + Cardinality({d \in Callers : pc[d] = "loop"}) < MaxRes
    /\ pc' = [pc EXCEPT ![c] = "loop"]
    /\ entry' = [entry EXCEPT ![c] = e]
    /\ kind' = [kind EXCEPT ![c] = k]
    /\ provider' = [provider EXCEPT ![c] = prov]
    /\ attempts' = [attempts EXCEPT ![c] = 0]
    /\ count' = [count EXCEPT ![c] = NoCount]
    /\ last' = [last EXCEPT ![c] = NoAttempt]
    /\ result' = [result EXCEPT ![c] = None]
    /\ views' = NoViews
    /\ UNCHANGED <<sockets, reservations>>

\* reserve_udp_port()
ReserveUdpPort(c) == Enter(c, "reserve_udp_port", "Udp", Fastrand)

\* reserve_tcp_port()
ReserveTcpPort(c) == Enter(c, "reserve_tcp_port", "Tcp", Fastrand)

\* reserve_port::<T, _>(&mut Provider::new(..)) with either test provider
ReservePort(c) ==
    \E k \in Kinds :
        \/ \E len \in 1 .. MaxLen, first \in ContractPorts :
               Enter(c, "reserve_port", k, RetryProvider(len, first))
        \/ \E p \in ContractPorts :
               Enter(c, "reserve_port", k, MaxRetriesProvider(p))

\* a loop without the attempts check
GiveUpNever(att) == FALSE

\* if attempts > 5
GiveUpLate(att) == att > MaxAttempts

\* if attempts >= 5
GiveUp(att) == att >= MaxAttempts

\* The panic that ends a call.
Panicked(c, msg, prov, att, cnt, lst) ==
    /\ pc' = [pc EXCEPT ![c] = "panicked"]
    /\ result' = [result EXCEPT ![c] = [tag |-> "Panic", msg |-> msg]]
    /\ provider' = [provider EXCEPT ![c] = prov]
    /\ attempts' = [attempts EXCEPT ![c] = att]
    /\ count' = [count EXCEPT ![c] = cnt]
    /\ last' = [last EXCEPT ![c] = lst]
    /\ UNCHANGED <<sockets, reservations, views, entry, kind>>

\* One pass through the loop of reserve_port: the attempts check, the pull
\* from the provider and the bind through Sit::sit.
LoopIteration(c) ==
    /\ pc[c] = "loop"
    /\ IF GiveUp(attempts[c])
       THEN Panicked(c, ExhaustedMsg, provider[c], attempts[c], count[c], last[c])
       ELSE \E pr \in ProvidePort(provider[c]) :
              LET pulled == [count[c] EXCEPT !.pulls = @ + 1]
              IN
              IF pr.panic
              THEN Panicked(c, pr.msg, pr.prov, attempts[c] + 1, pulled, last[c])
              ELSE \E o \in OsBind(kind[c], pr.port, sockets) :
                     LET s   == Sit(kind[c], pr.port, o, NewId)
                         lst == [port |-> pr.port, res |-> o.res, local |-> o.local]
                         cnt == [pulled EXCEPT
                                   !.binds = @ + 1,
                                   !.inUse = @ + (IF o.res = "AddrInUse" THEN 1 ELSE 0)]
                     IN  CASE s.tag = "Some" ->
                                /\ sockets' = KeepSitter(s.port, sockets)
                                /\ reservations' = reservations \cup {s.port}
                                /\ pc' = [pc EXCEPT ![c] = "returned"]
                                /\ result' = [result EXCEPT ![c] = s]
                                /\ provider' = [provider EXCEPT ![c] = pr.prov]
                                /\ attempts' = [attempts EXCEPT ![c] = @ + 1]
                                /\ count' = [count EXCEPT ![c] = cnt]
                                /\ last' = [last EXCEPT ![c] = lst]
                                /\ views' = IF views.id = s.port.id
                                             THEN NoViews
                                             ELSE views
                                /\ UNCHANGED <<entry, kind>>
                           [] s.tag = "None" ->
                                /\ provider' = [provider EXCEPT ![c] = pr.prov]
                                /\ attempts' = [attempts EXCEPT ![c] = @ + 1]
                                /\ count' = [count EXCEPT ![c] = cnt]
                                /\ last' = [last EXCEPT ![c] = lst]
                                /\ UNCHANGED <<sockets, reservations, views, pc,
                                               entry, kind, result>>
                           [] OTHER ->
                                Panicked(c, OsErrorMsg, pr.prov, attempts[c] + 1, cnt, lst)

\* reserve_port::<T, _>(&mut Provider::new(port)) with any u16, the wildcard 0
\* included
ReservePortAnyU16(c) ==
    \E k \in Kinds, p \in U16Sample :
        Enter(c, "reserve_port", k, MaxRetriesProvider(p))

\* The caller goes on after the call (with the Port, or after catch_unwind).
Finish(c) ==
    /\ pc[c] \in {"returned", "panicked"}
    /\ pc' = [pc EXCEPT ![c] = "idle"]
    /\ entry' = [entry EXCEPT ![c] = ""]
    /\ kind' = [kind EXCEPT ![c] = "Udp"]
    /\ provider' = [provider EXCEPT ![c] = Fastrand]
    /\ attempts' = [attempts EXCEPT ![c] = 0]
    /\ count' = [count EXCEPT ![c] = NoCount]
    /\ last' = [last EXCEPT ![c] = NoAttempt]
    /\ result' = [result EXCEPT ![c] = None]
    /\ UNCHANGED <<sockets, reservations, views>>

\* ------------------------------------------------- the Port's operations
\* A caller uses a Port between its calls of the reserve functions.

\* port.peek()
Peek(c, r) ==
    /\ pc[c] = "idle"
    /\ r \in reservations
    /\ views' = Seen(r, "peek", PortPeek(r))
    /\ sockets' = Borrowed(r, sockets)
    /\ UNCHANGED <<reservations, callVars>>

\* *port.as_ref()
AsRef(c, r) ==
    /\ pc[c] = "idle"
    /\ r \in reservations
    /\ views' = Seen(r, "as_ref", PortAsRef(r))
    /\ sockets' = Borrowed(r, sockets)
    /\ UNCHANGED <<reservations, callVars>>

\* port.take(): the number, and the Port dropped
Take(c, r) ==
    /\ pc[c] = "idle"
    /\ r \in reservations
    /\ views' = Seen(r, "take", PortTake(r))
    /\ sockets' = DropPort(r, sockets)
    /\ reservations' = reservations \ {r}
    /\ UNCHANGED callVars

\* the Port goes out of scope
Drop(c, r) ==
    /\ pc[c] = "idle"
    /\ r \in reservations
    /\ sockets' = DropPort(r, sockets)
    /\ reservations' = reservations \ {r}
    /\ UNCHANGED <<views, callVars>>

\* ------------------------------------------------------ other binders

\* A socket of another binder; the Ports' sockets have owners 1, 2, ...
ExtSocket(k, p) == [kind |-> k, port |-> p, owner |-> 0]

\* Someone else binds a port of 127.0.0.1 (UdpSocket::bind in the tests).
ExtBind(k, p) ==
    /\ [res |-> "Ok", local |-> p] \in OsBind(k, p, sockets)
    /\ sockets' = sockets \cup {ExtSocket(k, p)}
    /\ UNCHANGED <<reservations, views, callVars>>

\* Someone else closes their socket.
ExtClose(s) ==
    /\ s \in sockets
    /\ s = ExtSocket(s.kind, s.port)
    /\ sockets' = sockets \ {s}
    /\ UNCHANGED <<reservations, views, callVars>>

\* ------------------------------------------------------ specification

Init ==
    /\ sockets = {}
    /\ reservations = {}
    /\ views = NoViews
    /\ pc = [c \in Callers |-> "idle"]
    /\ entry = [c \in Callers |-> ""]
    /\ kind = [c \in Callers |-> "Udp"]
    /\ provider = [c \in Callers |-> Fastrand]
    /\ attempts = [c \in Callers |-> 0]
    /\ count = [c \in Callers |-> NoCount]
    /\ last = [c \in Callers |-> NoAttempt]
    /\ result = [c \in Callers |-> None]

Next ==
    \/ \E c \in Main : ReserveUdpPort(c)
    \/ \E c \in Main : ReserveTcpPort(c)
    \/ \E c \in Main : ReservePort(c)
    \/ \E c \in Main : LoopIteration(c)
    \/ \E c \in Main : Finish(c)
    \/ \E c \in Main, r \in reservations : Peek(c, r)
    \/ \E c \in Main, r \in reservations : AsRef(c, r)
    \/ \E c \in Main, r \in reservations : Take(c, r)
    \/ \E c \in Main, r \in reservations : Drop(c, r)
    \/ \E k \in Kinds, p \in HostPorts : ExtBind(k, p)
    \/ \E s \in sockets : ExtClose(s)

Spec == Init /\ [][Next]_vars

\* The crate with sit reachable on every u16, not only on the ports the
\* ProvidePort contract names.
NextAnyU16 ==
    \/ Next
    \/ \E c \in Main : ReservePortAnyU16(c)

SpecAnyU16 == Init /\ [][NextAnyU16]_vars

\* Two threads calling reserve_udp_port and reserve_tcp_port at the same
\* time, each bind one step, with the other binders of the host.
NextRace ==
    \/ \E c \in Callers : ReserveUdpPort(c)
    \/ \E c \in Callers : ReserveTcpPort(c)
    \/ \E c \in Callers : LoopIteration(c)
    \/ \E c \in Callers : Finish(c)
    \/ \E c \in Callers, r \in reservations : Drop(c, r)
    \/ \E k \in Kinds, p \in HostPorts : ExtBind(k, p)
    \/ \E s \in sockets : ExtClose(s)

SpecRace == Init /\ [][NextRace]_vars

\* reserve_port is synchronous, blocking code: a call that is in its loop
\* goes on to the next pass.
FairSpec == Spec /\ \A c \in Main : WF_vars(LoopIteration(c))

\* ------------------------------------------------------------ properties

Returned(c) == pc[c] = "returned"

PanickedWith(c, msg) == pc[c] = "panicked" /\ result[c].msg = msg

Exhausted(c) == PanickedWith(c, ExhaustedMsg)

Convenience(c) == entry[c] \in {"reserve_udp_port", "reserve_tcp_port"}

\* The candidate a Retry provider hands out next, when it has one.
HasNext(c) == provider[c].type = "Retry" /\ provider[c].index < provider[c].len

\* C1: every live reservation's number is a port of 127.0.0.1 that the
\* reservation's own socket holds bound, so that no other bind of the same
\* kind to that port can succeed: the host answers "address in use".
C1_ReservedPortIsHeld ==
    \A r \in reservations :
        /\ r._sitter \in sockets
        /\ r._sitter = [kind |-> r.kind, port |-> r.number, owner |-> r.id]
        /\ \A o \in OsBind(r.kind, r.number, sockets) : o.res # "Ok"
        /\ \E o \in OsBind(r.kind, r.number, sockets) : o.res = "AddrInUse"

\* A reservation is alive, was peeked, and another binder holds the other
\* port of its kind.
C1_Witness ==
    \E r \in reservations :
        /\ views.id = r.id
        /\ <<"peek", r.number>> \in views.seen
        /\ \E s \in sockets : s.kind = r.kind /\ s.owner = 0

\* C2 as the spec has it, for a source of any length: when the call's next
\* candidate is free and every candidate before it was in use, the call does
\* not end in exhaustion (it returns that candidate).
C2_FirstFreeAnyK ==
    [][\A c \in Callers :
         (/\ pc[c] = "loop"
          /\ HasNext(c)
          /\ provider[c].ports[1] \notin BoundPorts(kind[c], sockets)
          /\ count[c].inUse = count[c].binds
          /\ pc'[c] = "panicked")
         => result'[c].msg # ExhaustedMsg]_vars

\* What a returned call looks like: the k-th pull was the k-th bind, the
\* k-1 binds before it found the address in use, and the Port carries the
\* k-th candidate; k is at most 5.
C2_ReturnedState ==
    \A c \in Callers :
        Returned(c) =>
            LET k == count[c].binds
            IN  /\ k \in 1 .. 5
                /\ count[c].pulls = k
                /\ attempts[c] = k
                /\ provider[c].type # "Fastrand" => provider[c].index = k
                /\ count[c].inUse = k - 1
                /\ last[c].res = "Ok"
                /\ result[c].port.number = last[c].port
                /\ result[c].port \in reservations

\* One bind of a call: a free candidate is returned at once, a bound one
\* sends the call on to its next pass.
C2_BindStep ==
    \A c \in Callers :
        (pc[c] = "loop" /\ count'[c].binds = count[c].binds + 1
                        /\ last'[c].res # "Other")
        => IF last'[c].port \in BoundPorts(kind[c], sockets)
           THEN pc'[c] = "loop" /\ last'[c].res = "AddrInUse"
           ELSE /\ pc'[c] = "returned"
                /\ result'[c].port.number = last'[c].port
                /\ count[c].binds < 5

\* C2 (amended): with the first k-1 candidates bound and the k-th free, for
\* k <= 5, reserve_port returns the k-th candidate after exactly k binds and
\* k pulls, and pulls nothing after it.
C2_FirstFreeWithinFive == []C2_ReturnedState /\ [][C2_BindStep]_vars

\* A call returned its second candidate of an array of three.
C2_Witness ==
    \E c \in Callers :
        /\ Returned(c)
        /\ provider[c].type = "Retry"
        /\ provider[c].len = 3
        /\ count[c].binds = 2
        /\ provider[c].index = 2

C4_AtMostFivePulls ==
    \A c \in Callers :
        /\ count[c].pulls <= 5
        /\ provider[c].index <= 5
        /\ pc[c] = "panicked" => result[c].msg # BudgetMsg
        /\ (pc[c] = "panicked" /\ count[c].inUse = 5) =>
              /\ result[c].msg = "Failed to find usable port after 5 attempts."
              /\ count[c].pulls = 5
              /\ count[c].binds = 5
        /\ Exhausted(c) => count[c].pulls = 5 /\ count[c].inUse = 5

\* The provider of max_retries_tests was asked 5 times and the call ended
\* in exhaustion.
C4_Witness ==
    \E c \in Callers :
        /\ Exhausted(c)
        /\ provider[c].type = "MaxRetries"
        /\ provider[c].index = 5

\* The step in which Port r is taken with result v.
TakeStep(r, v) ==
    /\ r \in reservations
    /\ r \notin reservations'
    /\ views'.id = r.id
    /\ <<"take", v>> \in views'.seen

\* C5: right after take() the reservation's socket is closed and a fresh
\* bind of the same kind to 127.0.0.1:<the port take returned> can succeed.
C5_TakeReleasesPort ==
    [][\A r \in reservations : \A v \in U16Sample :
         TakeStep(r, v) =>
            /\ r._sitter \notin sockets'
            /\ v \notin BoundPorts(r.kind, sockets')
            /\ [res |-> "Ok", local |-> v] \in OsBind(r.kind, v, sockets')]_vars

\* A Port was taken, and another binder then bound the port it returned.
C5_Witness ==
    /\ \E v \in HostPorts :
          /\ <<"take", v>> \in views.seen
          /\ \E k \in Kinds : ExtSocket(k, v) \in sockets
    /\ \A r \in reservations : r.id # views.id

\* C6: all the values the accessors of one reservation return are the same:
\* as_ref, every peek and the final take agree, and agree with what peek
\* returns while the reservation lives.
C6_AccessorsAgree ==
    /\ \A a \in views.seen : \A b \in views.seen : a[2] = b[2]
    /\ \A r \in reservations :
          /\ PortPeek(r) = PortAsRef(r)
          /\ views.id = r.id => \A a \in views.seen : a[2] = PortPeek(r)

\* A reservation made with the wildcard was peeked, read through as_ref and
\* then taken.
C6_Witness ==
    /\ {a[1] : a \in views.seen} = {"peek", "as_ref", "take"}
    /\ \A r \in reservations : r.id # views.id
    /\ \E a \in views.seen : a[2] = 0

\* After a bind failed with another error than "address in use" the call is
\* over: it has panicked with the OS error, not with the exhaustion message.
C7_AbortedState ==
    \A c \in Callers :
        last[c].res = "Other" =>
            /\ pc[c] = "panicked"
            /\ result[c].msg = OsErrorMsg
            /\ result[c].msg # ExhaustedMsg
            /\ count[c].inUse = count[c].binds - 1
            /\ count[c].pulls = count[c].binds

\* A call that has panicked pulls and binds nothing more.
C7_AbortedStep ==
    \A c \in Callers :
        pc[c] = "panicked" =>
            \/ pc'[c] = "idle"
            \/ /\ pc'[c] = "panicked"
               /\ count'[c] = count[c]
               /\ last'[c] = last[c]
               /\ provider'[c] = provider[c]
               /\ result'[c] = result[c]

\* C7: a bind error other than "address in use" ends the call at once, as a
\* panic carrying the OS error; nothing is pulled or bound after it and it
\* never becomes the exhaustion failure.
C7_FatalBindAborts == []C7_AbortedState /\ [][C7_AbortedStep]_vars

\* A call aborted on its third bind, short of the 5 attempts.
C7_Witness ==
    \E c \in Callers :
        /\ PanickedWith(c, OsErrorMsg)
        /\ count[c].binds = 3
        /\ count[c].inUse = 2

C9_WildcardSingleAttempt ==
    \A c \in Callers :
        Convenience(c) =>
            /\ count[c].binds >= 1 => last[c].port = 0
            /\ count[c].binds <= 1
            /\ ~Exhausted(c)

\* C9 (amended): the two entry points draw their candidates from Fastrand,
\* each in 49152..=65535 and never the wildcard 0, bind at most 5 times, and
\* end in exhaustion only after 5 binds that all found the address in use.
C9_RandomPrivateFiveAttempts ==
    \A c \in Callers :
        Convenience(c) =>
            /\ provider[c] = Fastrand
            /\ kind[c] = (IF entry[c] = "reserve_udp_port" THEN "Udp" ELSE "Tcp")
            /\ count[c].binds >= 1 =>
                  (last[c].port # 0 /\ 49152 <= last[c].port /\ last[c].port <= 65535)
            /\ count[c].binds <= 5
            /\ Exhausted(c) => count[c].binds = 5 /\ count[c].inUse = 5
            /\ (pc[c] = "panicked" /\ ~Exhausted(c)) => result[c].msg = OsErrorMsg

\* reserve_tcp_port ended in exhaustion.
C9_Witness ==
    \E c \in Callers :
        /\ entry[c] = "reserve_tcp_port"
        /\ Exhausted(c)

\* C10: the number of a Port returned by reserve_udp_port or reserve_tcp_port
\* lies in 49152..=65535.
C10_PrivateRange ==
    \A c \in Callers :
        (Convenience(c) /\ Returned(c)) =>
            /\ 49152 <= result[c].port.number
            /\ result[c].port.number <= 65535

\* reserve_udp_port returned the top of the range on its second bind.
C10_Witness ==
    \E c \in Callers :
        /\ entry[c] = "reserve_udp_port"
        /\ Returned(c)
        /\ result[c].port.number = 65535
        /\ count[c].binds = 2

\* The call returned its Port after a bind that succeeded.
Reserved(c) == Returned(c) /\ result[c].tag = "Some" /\ last[c].res = "Ok"

\* The call gave up for want of a usable candidate: after 5 attempts, or
\* because its source had no candidate left; every bind it made found the
\* address in use.
Failed(c) ==
    /\ pc[c] = "panicked"
    /\ result[c] \in {[tag |-> "Panic", msg |-> ExhaustedMsg],
                      [tag |-> "Panic", msg |-> IndexMsg]}
    /\ count[c].inUse = count[c].binds

\* The call was unwound by the panic of sit on another bind error.
Aborted(c) ==
    /\ PanickedWith(c, OsErrorMsg)
    /\ result[c].tag = "Panic"
    /\ last[c].res = "Other"
    /\ count[c].inUse = count[c].binds - 1

\* A call is idle, in its loop with at most 5 attempts made and no result,
\* or ended in exactly one of the three ways.
C11_CallState ==
    \A c \in Callers :
        /\ pc[c] \in {"idle", "loop", "returned", "panicked"}
        /\ attempts[c] <= 5
        /\ count[c].binds <= attempts[c]
        /\ pc[c] \in {"idle", "loop"} => result[c] = None
        /\ pc[c] \in {"returned", "panicked"} =>
              Cardinality({t \in {"Reserved", "Failed", "Aborted"} :
                              \/ t = "Reserved" /\ Reserved(c)
                              \/ t = "Failed" /\ Failed(c)
                              \/ t = "Aborted" /\ Aborted(c)}) = 1

\* A call that has ended pulls and binds nothing more and keeps its result.
C11_EndedStep ==
    \A c \in Callers :
        pc[c] \in {"returned", "panicked"} =>
            \/ pc'[c] = "idle"
            \/ /\ pc'[c] = pc[c]
               /\ count'[c] = count[c]
               /\ attempts'[c] = attempts[c]
               /\ provider'[c] = provider[c]
               /\ result'[c] = result[c]

\* C11: every call ends, after at most 5 passes of its loop and whatever the
\* host's ports, in exactly one of Reserved, Failed (no usable candidate) or
\* Aborted (fatal bind error); after that it binds and pulls nothing more.
C11_CallEnds ==
    /\ []C11_CallState
    /\ [][C11_EndedStep]_vars
    /\ \A c \in Callers : (pc[c] = "loop") ~> (pc[c] \in {"returned", "panicked"})

\* A call on an array of two bound candidates ended Failed when the array
\* had no third one.
C11_Witness ==
    \E c \in Callers :
        /\ Failed(c)
        /\ PanickedWith(c, IndexMsg)
        /\ provider[c].len = 2
        /\ count[c].binds = 2
        /\ count[c].pulls = 3

\* No two live reservations of one kind carry the same port number, hold the
\* same port or are the same value twice.
C12_DistinctPorts ==
    \A r1 \in reservations : \A r2 \in reservations :
        (r1.kind = r2.kind /\ r1 # r2) =>
            /\ r1.number # r2.number
            /\ r1._sitter.port # r2._sitter.port
            /\ r1.id # r2.id

\* A bind of a candidate that is bound at that moment, by a reservation or
\* by anyone else, makes no reservation; on "address in use" the caller
\* stays in its loop, for its next candidate.
C12_LostRaceStep ==
    \A c \in Callers :
        (/\ pc[c] = "loop"
         /\ count'[c].binds = count[c].binds + 1
         /\ last'[c].port \in BoundPorts(kind[c], sockets))
        => /\ reservations' = reservations
           /\ sockets' = sockets
           /\ last'[c].res \in {"AddrInUse", "Other"}
           /\ last'[c].res = "AddrInUse" => pc'[c] = "loop"

\* C12: however the calls of two threads and the other binders interleave,
\* no two live reservations of one kind hold the same port number; of two
\* callers after one candidate at most one binds it and the other is told
\* "address in use" and goes on to its next candidate.
C12_NoSharedPort == []C12_DistinctPorts /\ [][C12_LostRaceStep]_vars

\* Both threads were in reserve_udp_port at once and tried the same port
\* first: thread 1 holds it, thread 2 was told "address in use" and is
\* still in its loop.
C12_Witness ==
    /\ pc[1] = "returned"
    /\ pc[2] = "loop"
    /\ kind[1] = kind[2]
    /\ count[1].binds = 1
    /\ count[2].binds = 1
    /\ last[2].res = "AddrInUse"
    /\ last[2].port = result[1].port.number
    /\ result[1].port \in reservations

\* The socket of every live reservation is open, and no socket made for a
\* reservation is open without it.
C13_OpenWhileAlive ==
    /\ \A r \in reservations : r._sitter \in sockets
    /\ \A s \in sockets :
          s.owner # 0 => \E r \in reservations : r._sitter = s

\* A reservation's socket closes in the step that consumes the reservation
\* (take or drop), where it was still open, and in no other step.
C13_CloseStep ==
    /\ \A r \in reservations \ reservations' :
          r._sitter \in sockets /\ r._sitter \notin sockets'
    /\ \A s \in sockets \ sockets' :
          s.owner # 0 => \E r \in reservations \ reservations' : r._sitter = s

\* C13: the socket of a reservation is closed exactly once: open from the
\* bind until take() or drop, closed by that step, never closed at another
\* time and never left open after the reservation is gone.
C13_ClosedOnce == []C13_OpenWhileAlive /\ [][C13_CloseStep]_vars

\* A reservation was taken while another one lives: the taken one's socket
\* is gone, the other's is open.
C13_Witness ==
    /\ \E a \in views.seen : a[1] = "take"
    /\ \A r \in reservations : r.id # views.id
    /\ \A s \in sockets : s.owner # views.id
    /\ \E r \in reservations : r._sitter \in sockets

\* What a step of peek or as_ref adds to the accessor results.
NewViews ==
    views'.seen \ (IF views'.id = views.id THEN views.seen ELSE {})

\* C14: a call of peek() or as_ref() leaves the reservation with its number,
\* its socket open, every other reservation, the host's bound ports and the
\* calls in progress as they were.
C14_PeekChangesNothing ==
    [][(/\ NewViews # {}
        /\ \A a \in NewViews : a[1] \in {"peek", "as_ref"})
       => /\ reservations' = reservations
          /\ sockets' = sockets
          /\ callVars' = callVars]_vars

\* A live reservation was peeked and read through as_ref; it and its open
\* socket are still there.
C14_Witness ==
    \E r \in reservations :
        /\ views.id = r.id
        /\ {a[1] : a \in views.seen} = {"peek", "as_ref"}
        /\ r._sitter \in sockets
        /\ r._sitter.port = r.number

\* While a call is in its loop nothing is open on its behalf; once it has
\* returned exactly one socket is, the one of its Port.
C15_HeldByCall ==
    \A c \in Callers :
        /\ pc[c] = "loop" => \A s \in sockets : s.owner \notin FreeIds
        /\ pc[c] = "returned" =>
              {s \in sockets : s.owner = result[c].port.id}
                  = {result[c].port._sitter}

\* A pass of the loop that returns adds one socket, on the returned Port's
\* port, and one reservation; any other pass (address in use, exhaustion, a
\* fatal bind error, a panic of the source) leaves the host's sockets and the
\* reservations as they were.
C15_PassStep ==
    \A c \in Callers :
        (pc[c] = "loop" /\ (pc'[c] # "loop" \/ count'[c] # count[c]))
        => IF pc'[c] = "returned"
           THEN /\ result'[c].port._sitter \notin sockets
                /\ sockets' = sockets \cup {result'[c].port._sitter}
                /\ reservations' = reservations \cup {result'[c].port}
                /\ result'[c].port._sitter.port = result'[c].port.number
           ELSE /\ sockets' = sockets
                /\ reservations' = reservations

\* C15: a call leaves no stray binding: a bind told "address in use" opens
\* nothing, the call holds at most one socket at any time, a call that
\* returns leaves exactly its Port's port newly bound, and a call that ends
\* in exhaustion or on a fatal bind error has changed no socket.
C15_NoStrayBindings == []C15_HeldByCall /\ [][C15_PassStep]_vars

\* A call returned on its third bind, beside another binder's socket; a
\* single new socket is open for it.
C15_Witness ==
    \E c \in Callers :
        /\ Returned(c)
        /\ count[c].inUse = 2
        /\ Cardinality(sockets) = 2
        /\ Cardinality(reservations) = 1

====
